---- MODULE Spec2Model ----
(***************************************************************************)
(* Model of plugins/inputs/coinbase_marketdata/coinbase_marketdata.go:     *)
(* the WebSocketListener input.  One host goroutine (the agent) calls      *)
(* Start once, as it does for every service input, and Stop any number of  *)
(* times; Start spawns the read goroutine, which spawns one addMetric      *)
(* goroutine per frame read from the connection.                           *)
(***************************************************************************)
EXTENDS Integers, Sequences, FiniteSets, TLC

(* ------------------------------ bounds -------------------------------- *)
MaxStops == 2       \* Stop calls made by the host
MaxFrames == 2      \* frames the transport delivers in total
MaxMetrics == 2     \* metrics the generic parser returns for one payload
MaxRows == 2        \* change rows of an l2update frame
MaxDegraded == 2    \* numeric fields of a ticker frame missing or unparsable

(* --------------------------- JSON values ------------------------------ *)
\* the dynamic values json.Unmarshal puts into map[string]interface{}
Nil == [t |-> "nil"]
Str(s) == [t |-> "str", s |-> s]
Num(lit) == [t |-> "num", lit |-> lit]
List(items) == [t |-> "list", items |-> items]

\* marketData[key]: a missing key yields the nil interface
Get(m, key) == IF key \in DOMAIN m THEN m[key] ELSE Nil

\* strconv.FormatFloat(f, 'g', -1, 64) for the JSON number literals used:
\* exponents >= 21 are irrelevant here, %v switches to %e at exponent 6
FormatFloat(lit) ==
    CASE lit = "71476932" -> "7.1476932e+07"
      [] lit = "12238444095" -> "1.2238444095e+10"
      [] OTHER -> lit

\* fmt.Sprintf("%v", x)
Sprintf(x) ==
    CASE x.t = "nil" -> "<nil>"
      [] x.t = "str" -> x.s
      [] x.t = "num" -> FormatFloat(x.lit)
      [] OTHER -> "[...]"

\* stands for the float64 +Inf
PosInf == 2000000000

\* stands for 1<<63 - 1
MaxInt64 == 2000000001

\* float64 values are modelled in hundredths; on a text that is a number
\* too large for a float64 strconv.ParseFloat returns +Inf with ErrRange
FloatTable ==
    [s \in {"1.5", "2.25", "731.99", "42", "0", "1e999"} |->
        CASE s = "1.5" -> 150
          [] s = "2.25" -> 225
          [] s = "731.99" -> 73199
          [] s = "42" -> 4200
          [] s = "1e999" -> PosInf
          [] OTHER -> 0]

\* price, _ := strconv.ParseFloat(s, 64): a syntax error leaves 0, a range
\* error leaves the infinity
ParseFloat(s) == IF s \in DOMAIN FloatTable THEN FloatTable[s] ELSE 0

\* on a text of digits too large for an int64 strconv.ParseInt returns the
\* largest int64 with ErrRange
IntTable ==
    [s \in {"42", "7", "0", "99999999999999999999"} |->
        CASE s = "42" -> 42
          [] s = "7" -> 7
          [] s = "99999999999999999999" -> MaxInt64
          [] OTHER -> 0]

\* id, _ := strconv.ParseInt(s, 10, 64): a syntax error leaves 0, a range
\* error leaves the largest int64
ParseInt(s) == IF s \in DOMAIN IntTable THEN IntTable[s] ELSE 0

(* ------------------------- Record Normalizer -------------------------- *)
\* the type assertions and index expressions of parseL2Update panic on
\* anything but a list of lists of at least three elements
RowPanics(c) == c.t # "list" \/ Len(c.items) < 3

L2Panics(l2UpdateData) ==
    LET changes == Get(l2UpdateData, "changes") IN
    \/ changes.t # "list"
    \/ \E i \in 1..Len(changes.items) : RowPanics(changes.items[i])

\* a row read with price and quantity exchanged
L2RowSwapped(l2UpdateData, change) ==
    [DataType |-> Sprintf(Get(l2UpdateData, "type")),
     ProductId |-> Sprintf(Get(l2UpdateData, "product_id")),
     Time |-> Sprintf(Get(l2UpdateData, "time")),
     Side |-> Sprintf(change.items[1]),
     Price |-> ParseFloat(Sprintf(change.items[3])),
     Qty |-> ParseFloat(Sprintf(change.items[2]))]

\* one L2Update struct per change row
L2Row(l2UpdateData, change) ==
    [DataType |-> Sprintf(Get(l2UpdateData, "type")),
     ProductId |-> Sprintf(Get(l2UpdateData, "product_id")),
     Time |-> Sprintf(Get(l2UpdateData, "time")),
     Side |-> Sprintf(change.items[1]),
     Price |-> ParseFloat(Sprintf(change.items[2])),
     Qty |-> ParseFloat(Sprintf(change.items[3]))]

parseL2Update(l2UpdateData) ==
    LET changes == Get(l2UpdateData, "changes").items IN
    [i \in 1..Len(changes) |-> L2Row(l2UpdateData, changes[i])]

parseTicker(tickerData) ==
    [DataType |-> Sprintf(Get(tickerData, "type")),
     ProductId |-> Sprintf(Get(tickerData, "product_id")),
     Side |-> Sprintf(Get(tickerData, "side")),
     Time |-> Sprintf(Get(tickerData, "time")),
     Price |-> ParseFloat(Sprintf(Get(tickerData, "price"))),
     Open24H |-> ParseFloat(Sprintf(Get(tickerData, "open_24h"))),
     Volume24H |-> ParseFloat(Sprintf(Get(tickerData, "volume_24h"))),
     Low24H |-> ParseFloat(Sprintf(Get(tickerData, "low_24h"))),
     High24H |-> ParseFloat(Sprintf(Get(tickerData, "high_24h"))),
     Volume30D |-> ParseFloat(Sprintf(Get(tickerData, "volume_30d"))),
     BestBid |-> ParseFloat(Sprintf(Get(tickerData, "best_bid"))),
     BestAsk |-> ParseFloat(Sprintf(Get(tickerData, "best_ask"))),
     Size |-> ParseFloat(Sprintf(Get(tickerData, "last_size"))),
     SequenceId |-> ParseInt(Sprintf(Get(tickerData, "sequence"))),
     TradeId |-> ParseInt(Sprintf(Get(tickerData, "trade_id")))]

\* var data []byte
NilBytes == [kind |-> "nil"]

\* the float64 fields of Ticker and of L2Update
TickerFloats ==
    {"Price", "Open24H", "Volume24H", "Low24H", "High24H", "Volume30D",
     "BestBid", "BestAsk", "Size"}
L2UpdateFloats == {"Price", "Qty"}

\* json.Marshal of a Ticker: the struct's json tags name the keys; an
\* infinite float64 is an UnsupportedValueError and leaves no bytes
MarshalTicker(r) ==
    IF \E f \in TickerFloats : r[f] = PosInf THEN NilBytes ELSE
    [kind |-> "bytes", type |-> r.DataType, product_id |-> r.ProductId,
     side |-> r.Side, time |-> r.Time, price |-> r.Price,
     open_24h |-> r.Open24H, volume_24h |-> r.Volume24H,
     low_24h |-> r.Low24H, high_24h |-> r.High24H,
     volume_30d |-> r.Volume30D, best_bid |-> r.BestBid,
     best_ask |-> r.BestAsk, last_size |-> r.Size,
     sequence_id |-> r.SequenceId, trade_id |-> r.TradeId]

\* json.Marshal of an L2Update
MarshalL2Update(r) ==
    IF \E f \in L2UpdateFloats : r[f] = PosInf THEN NilBytes ELSE
    [kind |-> "bytes", type |-> r.DataType, product_id |-> r.ProductId,
     side |-> r.Side, price |-> r.Price, qty |-> r.Qty, time |-> r.Time]



(* ------------------------- addMetric, pure part ----------------------- *)
\* for _, updates := range l2Updates { data, _ = json.Marshal(updates) }
RECURSIVE MarshalLoop(_, _, _)
MarshalLoop(l2Updates, i, data) ==
    IF i > Len(l2Updates) THEN data
    ELSE MarshalLoop(l2Updates, i + 1, MarshalL2Update(l2Updates[i]))

\* the unrecovered run-time panics of addMetric
AddMetricPanics(marketData) ==
    /\ Get(marketData, "type") = Str("l2update")
    /\ L2Panics(marketData)

\* addMetric treating every type but l2update as a ticker
AddMetricDataElseTicker(marketData) ==
    IF Get(marketData, "type") = Str("l2update")
    THEN MarshalLoop(parseL2Update(marketData), 1, NilBytes)
    ELSE MarshalTicker(parseTicker(marketData))

\* the value of data when the if/else-if of addMetric is left
AddMetricData(marketData) ==
    IF Get(marketData, "type") = Str("ticker")
    THEN MarshalTicker(parseTicker(marketData))
    ELSE IF Get(marketData, "type") = Str("l2update")
    THEN MarshalLoop(parseL2Update(marketData), 1, NilBytes)
    ELSE NilBytes

\* the payloads handed to wsl.Parser.Parse for one decoded frame
ParserInputs(marketData) ==
    IF AddMetricData(marketData) # NilBytes
    THEN <<AddMetricData(marketData)>>
    ELSE <<>>

\* wsl.Parser.Parse(data): the generic parser either rejects the payload or
\* returns some metrics built from it
ParseResults(data) ==
    {[err |-> TRUE, metrics |-> <<>>]} \cup
    {[err |-> FALSE, metrics |-> [i \in 1..n |-> [payload |-> data, idx |-> i]]] :
        n \in 0..MaxMetrics}

(* ------------------------------ frames -------------------------------- *)
BadJson == [json |-> FALSE]
Obj(m) == [json |-> TRUE, m |-> m]

Row(side, price, qty) == List(<<Str(side), Str(price), Str(qty)>>)

TickerFrame ==
    Obj([type |-> Str("ticker"), sequence |-> Num("12238444095"),
         product_id |-> Str("ETH-USD"), price |-> Str("731.99"),
         open_24h |-> Str("1.5"), volume_24h |-> Str("2.25"),
         low_24h |-> Str("1.5"), high_24h |-> Str("731.99"),
         volume_30d |-> Str("42"), best_bid |-> Str("1.5"),
         best_ask |-> Str("2.25"), side |-> Str("buy"),
         time |-> Str("T1"), trade_id |-> Num("71476932"),
         last_size |-> Str("1.5")])

L2Frame(rows) ==
    Obj([type |-> Str("l2update"), product_id |-> Str("ETH-USD"),
         changes |-> List(rows), time |-> Str("T1")])

L2Frame1 == L2Frame(<<Row("sell", "731.99", "1.5")>>)
L2Frame2 == L2Frame(<<Row("sell", "731.99", "1.5"), Row("buy", "2.25", "42")>>)
HeartbeatFrame == Obj([type |-> Str("heartbeat"), time |-> Str("T1")])
L2NoChanges == Obj([type |-> Str("l2update"), product_id |-> Str("ETH-USD")])

\* the text frames the transport delivers while the listener runs; the other
\* shapes of a frame are run through addMetric in DispatchSpec
Frames == {BadJson, L2Frame2, HeartbeatFrame, L2NoChanges}

\* a frame without a type field, and an l2update whose changes is no list
NoTypeFrame == Obj([product_id |-> Str("ETH-USD"), time |-> Str("T1")])
L2ChangesNoList ==
    Obj([type |-> Str("l2update"), product_id |-> Str("ETH-USD"),
         changes |-> Str("sell"), time |-> Str("T1")])

\* change rows: two well-formed ones, one with a non-numeric price, one with
\* a price too large for a float64, one with two elements, one that is no
\* list
GoodRows == {Row("sell", "731.99", "1.5"), Row("buy", "2.25", "42")}
RowKinds ==
    GoodRows \cup
    {Row("sell", "abc", "1.5"), Row("buy", "1e999", "42"),
     List(<<Str("sell"), Str("731.99")>>), Str("sell")}

\* the l2update frames with up to MaxRows rows
L2Events ==
    {L2Frame(rows) : rows \in UNION {[1..n -> RowKinds] : n \in 0..MaxRows}}
        \cup {L2NoChanges, L2ChangesNoList}

\* the keys parseTicker reads as numbers
FloatKeys ==
    {"price", "open_24h", "volume_24h", "low_24h", "high_24h", "volume_30d",
     "best_bid", "best_ask", "last_size"}
IntKeys == {"sequence", "trade_id"}
NumericKeys == FloatKeys \cup IntKeys

\* a ticker event with small integer ids, which %v prints in plain digits
TickerSmallIds ==
    [TickerFrame.m EXCEPT !.sequence = Num("42"), !.trade_id = Num("7")]

\* what a numeric field may be instead of a number: absent, a text that is
\* no number, a text that is a number out of range
DegradeKinds == {"missing", "syntax", "range"}

Degraded(m, d) ==
    [k \in (DOMAIN m) \ {j \in DOMAIN d : d[j] = "missing"} |->
        IF k \notin DOMAIN d THEN m[k]
        ELSE IF d[k] = "syntax" THEN Str("abc")
        ELSE IF k \in FloatKeys THEN Str("1e999")
        ELSE Str("99999999999999999999")]

\* the ticker frames with up to MaxDegraded numeric fields degraded
TickerEvents ==
    {Obj(Degraded(m, d)) :
        m \in {TickerFrame.m, TickerSmallIds},
        d \in UNION {[K -> DegradeKinds] :
                       K \in {K \in SUBSET NumericKeys : Cardinality(K) <= MaxDegraded}}}

\* every shape of frame addMetric is run on
InboundFrames ==
    {BadJson, HeartbeatFrame, NoTypeFrame} \cup L2Events \cup TickerEvents

(* ------------------------------ settings ------------------------------ *)
\* on_connect_msg as bytes: "{}" and "\n{}\n"
OnConnectMsgs == {<<123, 125>>, <<10, 123, 125, 10>>}

\* []byte(wsl.OnConnectMsg)
Bytes(s) == [i \in 1..Len(s) |-> s[i]]

\* websocket.TextMessage
TextMessage == "TextMessage"

(* ------------------------------- state -------------------------------- *)
VARIABLES
    OnConnectMsg,   \* wsl.OnConnectMsg
    Accumulator,    \* wsl.Accumulator has been set
    conn,           \* wsl.conn: 0 is nil, otherwise a connection id
    Closer,         \* wsl.Closer: 0 is nil, otherwise the connection it closes
    wg,             \* counter of wsl.wg
    proc,           \* "running", "exited" (os.Exit) or "panicked"
    fatal,          \* which log.Fatal ended the process
    hostPc,         \* position of the goroutine calling Start and Stop
    last,           \* the call that returned last to the host
    readers,        \* the read goroutines, each with the lines it printed
                    \* with log.Println and its calls of AddError
    work,           \* the addMetric goroutines, each with the payloads it
                    \* passed to the parser and its calls of AddMetric and
                    \* AddError
    conns,          \* the connections dialled: frames written, times
                    \* closed, frames ReadMessage has returned
    nStarts, startRet, nStops, stopRet, started

vars == <<OnConnectMsg, Accumulator, conn, Closer, wg, proc, fatal, hostPc,
          last, readers, work, conns, nStarts, startRet, nStops,
          stopRet, started>>

\* newSocketListener: done is an unbuffered channel, conn and Closer are nil,
\* the WaitGroup is at zero
Init ==
    /\ OnConnectMsg \in OnConnectMsgs
    /\ Accumulator = FALSE
    /\ conn = 0
    /\ Closer = 0
    /\ wg = 0
    /\ proc = "running"
    /\ fatal = ""
    /\ hostPc = "idle"
    /\ last = "none"
    /\ readers = <<>>
    /\ work = <<>>
    /\ conns = <<>>
    /\ nStarts = 0 /\ startRet = 0 /\ nStops = 0 /\ stopRet = 0
    /\ started = {}

(* ------------------------------- Start -------------------------------- *)
\* Start with the subscription written before the reader is spawned
StartOrderSubscribeFirst == <<"dial", "subscribe", "go">>

\* the statements of Start in program order: websocket.DefaultDialer.Dial,
\* go wsl.read(), wsl.subscribe()
StartOrder == <<"dial", "go", "subscribe">>

\* where Start continues after a step: the next statement, or "idle" once
\* return nil has been reached
AfterStep(step) ==
    LET i == CHOOSE j \in 1..Len(StartOrder) : StartOrder[j] = step IN
    IF i = Len(StartOrder) THEN "idle" ELSE StartOrder[i + 1]

\* the bookkeeping of a step of Start that succeeded
StartAdvance(step) ==
    /\ hostPc' = AfterStep(step)
    /\ IF AfterStep(step) = "idle"
       THEN /\ startRet' = startRet + 1
            /\ last' = "Start"
            /\ started' = started \cup {conn}
       ELSE UNCHANGED <<startRet, last, started>>

\* log.Fatal: os.Exit(1) ends the process, the return err behind it is
\* never reached
LogFatal(at) ==
    /\ proc' = "exited"
    /\ fatal' = at

\* subscribe sending the message with its surrounding line feeds trimmed
NotLineFeed(b) == b # 10
subscribeTrimmed ==
    [messageType |-> TextMessage, data |-> SelectSeq(OnConnectMsg, NotLineFeed)]

\* the frame written by subscribe: WriteMessage(websocket.TextMessage,
\* []byte(wsl.OnConnectMsg))
subscribe == [messageType |-> TextMessage, data |-> Bytes(OnConnectMsg)]

\* Start up to wsl.conn = c
StartDial ==
    /\ proc = "running" /\ hostPc = "idle" /\ nStarts = 0
    /\ nStarts' = nStarts + 1
    /\ Accumulator' = TRUE
    /\ \E err \in BOOLEAN :
         IF err
         THEN /\ LogFatal("dial")
              /\ UNCHANGED <<conn, conns, hostPc, startRet, last, started>>
         ELSE /\ conn' = Len(conns) + 1
              /\ conns' = Append(conns, [written |-> <<>>, closed |-> 0, delivered |-> <<>>])
              /\ StartAdvance("dial")
              /\ UNCHANGED <<proc, fatal>>
    /\ UNCHANGED <<OnConnectMsg, Closer, wg, readers, work, nStops, stopRet>>

\* go wsl.read()
StartGoRead ==
    /\ proc = "running" /\ hostPc = "go"
    /\ readers' = Append(readers, [pc |-> "select", of |-> conn, conn |-> 0,
                                    exit |-> "", log |-> <<>>, errs |-> <<>>])
    /\ StartAdvance("go")
    /\ UNCHANGED <<OnConnectMsg, Accumulator, conn, Closer, wg, proc, fatal,
                   work, conns, nStarts, nStops, stopRet>>

\* err = wsl.subscribe() and the rest of Start
StartSubscribe ==
    /\ proc = "running" /\ hostPc = "subscribe"
    /\ \E err \in BOOLEAN :
         IF err
         THEN /\ LogFatal("subscribe")
              /\ UNCHANGED <<conns, hostPc, startRet, last, started>>
         ELSE /\ conns' = [conns EXCEPT ![conn].written = Append(@, subscribe)]
              /\ StartAdvance("subscribe")
              /\ UNCHANGED <<proc, fatal>>
    /\ UNCHANGED <<OnConnectMsg, Accumulator, conn, Closer, wg, readers, work,
                   nStarts, nStops, stopRet>>

(* -------------------------------- Stop -------------------------------- *)
\* Stop with a send that does not wait for a receiver (a buffered done)
StopSendBuffered ==
    /\ proc = "running" /\ hostPc = "idle" /\ nStops < MaxStops
    /\ hostPc' = "close"
    /\ nStops' = nStops + 1
    /\ UNCHANGED <<OnConnectMsg, Accumulator, conn, Closer, wg, proc, fatal,
                   last, readers, work, conns, nStarts, startRet,
                   stopRet, started>>

\* Stop is entered and blocks in wsl.done <- true: done is unbuffered, the
\* send completes only when a reader receives
StopSend ==
    /\ proc = "running" /\ hostPc = "idle" /\ nStops < MaxStops
    /\ hostPc' = "send"
    /\ nStops' = nStops + 1
    /\ UNCHANGED <<OnConnectMsg, Accumulator, conn, Closer, wg, proc, fatal,
                   last, readers, work, conns, nStarts, startRet,
                   stopRet, started>>

\* the rest of Stop: the Closer, when there is one, is closed and dropped;
\* wg.Wait() returns at once because nothing ever calls wg.Add
StopFinish ==
    /\ proc = "running" /\ hostPc = "close"
    /\ IF Closer # 0
       THEN /\ conns' = [conns EXCEPT ![Closer].closed = @ + 1]
            /\ Closer' = 0
       ELSE UNCHANGED <<conns, Closer>>
    /\ wg = 0
    /\ hostPc' = "idle"
    /\ stopRet' = stopRet + 1
    /\ last' = "Stop"
    /\ UNCHANGED <<OnConnectMsg, Accumulator, conn, wg, proc, fatal, readers,
                   work, nStarts, startRet, nStops, started>>

(* -------------------------------- read -------------------------------- *)
\* the receive leaving only the select (break), not the loop
ReadDoneBreak(r) ==
    /\ proc = "running" /\ hostPc = "send"
    /\ readers[r].pc = "select"
    /\ readers' = [readers EXCEPT ![r].exit = "done"]
    /\ hostPc' = "close"
    /\ UNCHANGED <<OnConnectMsg, Accumulator, conn, Closer, wg, proc, fatal,
                   last, work, conns, nStarts, startRet, nStops,
                   stopRet, started>>

\* case <-wsl.done: return; the receive meets the send of Stop
ReadDone(r) ==
    /\ proc = "running" /\ hostPc = "send"
    /\ readers[r].pc = "select"
    /\ readers' = [readers EXCEPT ![r].pc = "exited", ![r].exit = "done"]
    /\ hostPc' = "close"
    /\ UNCHANGED <<OnConnectMsg, Accumulator, conn, Closer, wg, proc, fatal,
                   last, work, conns, nStarts, startRet, nStops,
                   stopRet, started>>

\* default: no sender is waiting on done, the reader goes into
\* wsl.conn.ReadMessage()
ReadDefault(r) ==
    /\ proc = "running" /\ hostPc # "send"
    /\ readers[r].pc = "select"
    /\ readers' = [readers EXCEPT ![r].pc = "read", ![r].conn = conn]
    /\ UNCHANGED <<OnConnectMsg, Accumulator, conn, Closer, wg, proc, fatal,
                   hostPc, last, work, conns, nStarts, startRet,
                   nStops, stopRet, started>>

\* the goroutine started by go wsl.addMetric(message)
NewWork(r, c, message) ==
    [reader |-> r, conn |-> c, message |-> message, pc |-> "run",
     returned |-> <<>>, metrics |-> <<>>, passed |-> <<>>, sink |-> <<>>,
     errs |-> <<>>]

\* read calling addMetric itself instead of spawning it
ReadMessageOkInline(r, message) ==
    /\ proc = "running"
    /\ readers[r].pc = "read"
    /\ conns[readers[r].conn].closed = 0
    /\ Len(work) < MaxFrames
    /\ work' = Append(work, NewWork(r, readers[r].conn, message))
    /\ conns' = [conns EXCEPT ![readers[r].conn].delivered = Append(@, message)]
    /\ readers' = [readers EXCEPT ![r].pc = "dispatch"]
    /\ UNCHANGED <<OnConnectMsg, Accumulator, conn, Closer, wg, proc, fatal,
                   hostPc, last, nStarts, startRet, nStops,
                   stopRet, started>>

\* ReadMessage returns a frame: go wsl.addMetric(message)
ReadMessageOk(r, message) ==
    /\ proc = "running"
    /\ readers[r].pc = "read"
    /\ conns[readers[r].conn].closed = 0
    /\ Len(work) < MaxFrames
    /\ work' = Append(work, NewWork(r, readers[r].conn, message))
    /\ conns' = [conns EXCEPT ![readers[r].conn].delivered = Append(@, message)]
    /\ readers' = [readers EXCEPT ![r].pc = "select", ![r].conn = 0]
    /\ UNCHANGED <<OnConnectMsg, Accumulator, conn, Closer, wg, proc, fatal,
                   hostPc, last, nStarts, startRet, nStops,
                   stopRet, started>>

\* ReadMessage returns an error: log.Println and return
ReadMessageErr(r) ==
    /\ proc = "running"
    /\ readers[r].pc = "read"
    /\ readers' = [readers EXCEPT ![r].pc = "exited", ![r].exit = "error",
                                   ![r].conn = 0, ![r].log = Append(@, "read: ")]
    /\ UNCHANGED <<OnConnectMsg, Accumulator, conn, Closer, wg, proc, fatal,
                   hostPc, last, work, conns, nStarts, startRet,
                   nStops, stopRet, started>>

(* ------------------------------ addMetric ----------------------------- *)
\* the error reported twice
AddErrorTwice(w, err) ==
    [work EXCEPT ![w].errs = Append(Append(@, err), err), ![w].pc = "done"]

\* wsl.AddError(fmt.Errorf("unable to parse incoming msg: %s", err))
AddError(w, err) == [work EXCEPT ![w].errs = Append(@, err), ![w].pc = "done"]

\* addMetric from json.Unmarshal to the return of wsl.Parser.Parse
AddMetricRun(w) ==
    /\ proc = "running"
    /\ work[w].pc = "run"
    /\ LET message == work[w].message IN
       IF ~message.json
       THEN /\ work' = AddError(w, "unmarshal")
            /\ UNCHANGED proc
       ELSE IF AddMetricPanics(message.m)
       THEN /\ proc' = "panicked"
            /\ UNCHANGED work
       ELSE IF ParserInputs(message.m) = <<>>
       THEN /\ work' = [work EXCEPT ![w].pc = "done"]
            /\ UNCHANGED proc
       ELSE /\ \E res \in ParseResults(ParserInputs(message.m)[1]) :
                 LET passed == [work EXCEPT ![w].passed = ParserInputs(message.m)] IN
                 IF res.err
                 THEN work' = [passed EXCEPT ![w].errs = Append(@, "parse"),
                                             ![w].pc = "done"]
                 ELSE work' = [passed EXCEPT
                                 ![w].returned = res.metrics,
                                 ![w].metrics = res.metrics,
                                 ![w].pc = IF res.metrics = <<>>
                                           THEN "done" ELSE "forward"]
            /\ UNCHANGED proc
    /\ UNCHANGED <<OnConnectMsg, Accumulator, conn, Closer, wg, fatal, hostPc,
                   last, readers, conns, nStarts, startRet, nStops,
                   stopRet, started>>

\* the metrics forwarded last one first
AddMetricForwardReversed(w) ==
    /\ proc = "running"
    /\ work[w].pc = "forward"
    /\ LET n == Len(work[w].metrics) IN
       work' = [work EXCEPT ![w].sink = Append(@, work[w].metrics[n]),
                            ![w].metrics = SubSeq(@, 1, n - 1),
                            ![w].pc = IF n = 1 THEN "done" ELSE "forward"]
    /\ UNCHANGED <<OnConnectMsg, Accumulator, conn, Closer, wg, proc, fatal,
                   hostPc, last, readers, conns, nStarts, startRet,
                   nStops, stopRet, started>>

\* for _, m := range metrics { wsl.AddMetric(m) }, one iteration
AddMetricForward(w) ==
    /\ proc = "running"
    /\ work[w].pc = "forward"
    /\ work' = [work EXCEPT ![w].sink = Append(@, Head(work[w].metrics)),
                            ![w].metrics = Tail(@),
                            ![w].pc = IF Tail(work[w].metrics) = <<>>
                                      THEN "done" ELSE "forward"]
    /\ UNCHANGED <<OnConnectMsg, Accumulator, conn, Closer, wg, proc, fatal,
                   hostPc, last, readers, conns, nStarts, startRet,
                   nStops, stopRet, started>>

(* ---------------------------- specification --------------------------- *)
Next ==
    \/ StartDial
    \/ StartGoRead
    \/ StartSubscribe
    \/ StopSend
    \/ StopFinish
    \/ \E r \in 1..Len(readers) : ReadDone(r)
    \/ \E r \in 1..Len(readers) : ReadDefault(r)
    \/ \E r \in 1..Len(readers) : \E message \in Frames : ReadMessageOk(r, message)
    \/ \E r \in 1..Len(readers) : ReadMessageErr(r)
    \/ \E w \in 1..Len(work) : AddMetricRun(w)
    \/ \E w \in 1..Len(work) : AddMetricForward(w)

Spec == Init /\ [][Next]_vars

\* the scheduler runs every goroutine that can take a step; nothing obliges
\* the host to call Start or Stop, nor the transport to deliver a frame or
\* an error
Fairness ==
    /\ WF_vars(StartGoRead)
    /\ WF_vars(StartSubscribe)
    /\ WF_vars(StopFinish)
    /\ WF_vars(\E r \in 1..Len(readers) : ReadDone(r))
    /\ WF_vars(\E r \in 1..Len(readers) : ReadDefault(r))
    /\ WF_vars(\E w \in 1..Len(work) : AddMetricRun(w))
    /\ WF_vars(\E w \in 1..Len(work) : AddMetricForward(w))

FairSpec == Spec /\ Fairness

(* ------------------- addMetric on every shape of frame ----------------- *)
\* the listener after Start has returned and the read goroutine has read its
\* first frame and gone back to its select
DispatchInit ==
    /\ OnConnectMsg \in OnConnectMsgs
    /\ Accumulator = TRUE
    /\ conn = 1
    /\ Closer = 0
    /\ wg = 0
    /\ proc = "running"
    /\ fatal = ""
    /\ hostPc = "idle"
    /\ last = "Start"
    /\ readers = <<[pc |-> "select", of |-> 1, conn |-> 0, exit |-> "",
                    log |-> <<>>, errs |-> <<>>]>>
    /\ \E message \in InboundFrames :
         /\ work = <<NewWork(1, 1, message)>>
         /\ conns = <<[written |-> <<subscribe>>, closed |-> 0,
                       delivered |-> <<message>>]>>
    /\ nStarts = 1 /\ startRet = 1 /\ nStops = 0 /\ stopRet = 0
    /\ started = {1}

DispatchNext ==
    \/ \E w \in 1..Len(work) : AddMetricRun(w)
    \/ \E w \in 1..Len(work) : AddMetricForward(w)

DispatchSpec == DispatchInit /\ [][DispatchNext]_vars

(* ------------------------------- claims ------------------------------- *)
AllReadersExited == \A r \in 1..Len(readers) : readers[r].pc = "exited"
StopReturned == last = "Stop" /\ hostPc = "idle"

\* C1: two Stop calls in sequence on a started listener both return: the
\* second call is never left blocked in its send on done with no read
\* goroutine alive to receive it.
StopTwiceReturns ==
    ~(nStarts = 1 /\ nStops = 2 /\ stopRet = 1 /\ hostPc = "send" /\ AllReadersExited)

\* C2: Stop is safe after the read path exited on a read error: a Stop called
\* in that state is never left blocked in its send with no reader to
\* receive it.
StopAfterReadErrorReturns ==
    ~(/\ hostPc = "send"
      /\ readers # <<>>
      /\ \A r \in 1..Len(readers) : readers[r].exit = "error")

\* C3: once Stop has returned no addMetric work item spawned by the read
\* path is still running, so none calls AddMetric or AddError afterwards.
StopWaitsForWork ==
    StopReturned => \A w \in 1..Len(work) : work[w].pc = "done"

\* C4: a Stop that waits while the read path is blocked in ReadMessage gets
\* through without the transport delivering anything: unless ReadMessage
\* returns (a frame or an error), the read path observes the signal and Stop
\* leaves its send.
ReaderInReadMessage == \A r \in 1..Len(readers) : readers[r].pc = "read"
StopObservedWithoutTransport ==
    (hostPc = "send" /\ readers # <<>> /\ ReaderInReadMessage)
        ~> (hostPc # "send" \/ ~ReaderInReadMessage \/ proc # "running")

\* C5: after a successful Start and a Stop that has returned, the connection
\* opened by Start has been closed exactly once.
StopClosesConnOnce ==
    (StopReturned /\ startRet = 1) => conns[conn].closed = 1

ConnectErrorReturned ==
    fatal = "dial" =>
        /\ proc = "running"
        /\ last = "StartErr"
        /\ readers = <<>>
        /\ conns = <<>>

\* C8: when the subscription write fails Start returns the error to its
\* caller and the core never reaches Reading: no read path is running and no
\* frame has been dispatched.
SubscribeErrorAborts ==
    fatal = "subscribe" =>
        /\ proc = "running"
        /\ last = "StartErr"
        /\ AllReadersExited
        /\ work = <<>>

\* C9: the only frame ever written on a connection is the subscription, once,
\* as a text frame carrying the configured message unchanged, and it has been
\* written on every connection whose Start succeeded.
SubscriptionWrittenOnce ==
    \A c \in 1..Len(conns) :
        conns[c].written =
            IF c \in started
            THEN <<[messageType |-> TextMessage, data |-> OnConnectMsg]>>
            ELSE <<>>

\* a successful Start whose connection has gone on to deliver a frame
SubscribedAndDispatching ==
    /\ started = {conn}
    /\ Len(conns[conn].written) = 1
    /\ \E w \in 1..Len(work) : work[w].pc = "done"

\* C10: the work item of an l2update frame with K >= 1 rows passes the
\* serialized record of every row to the parser, in row order.
AllRowsReachParser ==
    \A w \in 1..Len(work) :
        LET message == work[w].message IN
        (/\ work[w].pc \in {"forward", "done"}
         /\ message.json
         /\ Get(message.m, "type") = Str("l2update")
         /\ Len(parseL2Update(message.m)) >= 1)
        => work[w].passed =
             [i \in 1..Len(parseL2Update(message.m)) |->
                MarshalL2Update(parseL2Update(message.m)[i])]

\* the decoded frame of a work item, the type it carries
IsEvent(w, type) ==
    /\ work[w].message.json
    /\ Get(work[w].message.m, "type") = Str(type)

\* an l2update event whose changes is a list of well-formed rows
WellFormedL2(w) ==
    /\ IsEvent(w, "l2update")
    /\ Get(work[w].message.m, "changes").t = "list"
    /\ \A i \in 1..Len(work[w].message.m.changes.items) :
         work[w].message.m.changes.items[i] \in GoodRows

\* C11: for an l2update event with K well-formed rows parseL2Update returns
\* K records, the i-th with the side, price and quantity of the i-th row and
\* the type, product id and time of the frame.
ParseL2UpdateKeepsRows ==
    \A w \in 1..Len(work) :
        WellFormedL2(w) =>
            LET m == work[w].message.m
                rows == m.changes.items
                records == parseL2Update(m)
            IN  /\ Len(records) = Len(rows)
                /\ \A i \in 1..Len(rows) :
                     records[i] =
                        [DataType |-> "l2update",
                         ProductId |-> m.product_id.s,
                         Time |-> m.time.s,
                         Side |-> rows[i].items[1].s,
                         Price |-> FloatTable[rows[i].items[2].s],
                         Qty |-> FloatTable[rows[i].items[3].s]]

\* a frame of two different well-formed rows has gone through addMetric
TwoRowsNormalized ==
    /\ work # <<>>
    /\ work[1].message = L2Frame2
    /\ work[1].pc # "run"

\* C12: a frame that is not valid JSON gets exactly one AddError and no
\* AddMetric, nothing of it reaches the parser, and the frames read after
\* it are processed as their own content demands.
BadJsonReportedOnce ==
    \A w \in 1..Len(work) :
        ~work[w].message.json =>
            /\ work[w].sink = <<>>
            /\ work[w].passed = <<>>
            /\ work[w].errs = IF work[w].pc = "done" THEN <<"unmarshal">> ELSE <<>>
            /\ \A v \in (w + 1)..Len(work) :
                 (work[v].message.json /\ work[v].pc # "run")
                    => work[v].passed = ParserInputs(work[v].message.m)

\* an invalid frame was reported, the read path went on and the next frame
\* reached the sink
NextFrameAfterBadJson ==
    /\ Len(work) = 2
    /\ work[1].message = BadJson /\ work[1].errs = <<"unmarshal">>
    /\ work[2].pc = "done" /\ work[2].sink # <<>>
    /\ \E r \in 1..Len(readers) : readers[r].pc = "read"

\* C13: a valid JSON frame whose type is neither "ticker" nor "l2update", or
\* that has no type, is ignored: nothing is passed to the parser, nothing
\* reaches the sink, no error is reported, the process goes on.
UnknownTypeIgnored ==
    \A w \in 1..Len(work) :
        (/\ work[w].message.json
         /\ ~IsEvent(w, "ticker")
         /\ ~IsEvent(w, "l2update"))
        => /\ work[w].passed = <<>>
           /\ work[w].sink = <<>>
           /\ work[w].errs = <<>>
           /\ work[w].pc \in {"run", "done"}
           /\ proc = "running"

\* a frame without a type field has gone through addMetric
NoTypeFrameDone ==
    /\ work # <<>>
    /\ work[1].message = NoTypeFrame
    /\ work[1].pc = "done"

\* the field of Ticker each numeric key is stored in
TickerField ==
    [k \in NumericKeys |->
        CASE k = "price" -> "Price"
          [] k = "open_24h" -> "Open24H"
          [] k = "volume_24h" -> "Volume24H"
          [] k = "low_24h" -> "Low24H"
          [] k = "high_24h" -> "High24H"
          [] k = "volume_30d" -> "Volume30D"
          [] k = "best_bid" -> "BestBid"
          [] k = "best_ask" -> "BestAsk"
          [] k = "last_size" -> "Size"
          [] k = "sequence" -> "SequenceId"
          [] OTHER -> "TradeId"]

\* the texts that strconv rejects
Unparsable == {Str("abc"), Str("1e999"), Str("99999999999999999999")}

\* m is the complete event full with some numeric fields missing or
\* unparsable
DegradedFrom(m, full) ==
    \A k \in NumericKeys : k \notin DOMAIN m \/ m[k] = full[k] \/ m[k] \in Unparsable

\* C14: parseTicker on a ticker event with some numeric fields missing or
\* unparsable returns zero in exactly those fields and in every other field
\* the value it returns for the complete event.
TickerFieldsIndependent ==
    \A w \in 1..Len(work) :
        (IsEvent(w, "ticker") /\ work[w].pc # "run") =>
            \A full \in {TickerFrame.m, TickerSmallIds} :
                LET m == work[w].message.m IN
                DegradedFrom(m, full) =>
                    /\ \A k \in NumericKeys :
                         parseTicker(m)[TickerField[k]] =
                            IF k \in DOMAIN m /\ m[k] = full[k]
                            THEN parseTicker(full)[TickerField[k]]
                            ELSE 0
                    /\ \A f \in {"DataType", "ProductId", "Side", "Time"} :
                         parseTicker(m)[f] = parseTicker(full)[f]

\* C15: a malformed row of an l2update frame, or a changes entry that is
\* missing or no list, does not abort processing: the process keeps running
\* and the work item passes the record of the frame's well-formed rows on.
MalformedRowIsolated ==
    /\ proc # "panicked"
    /\ \A w \in 1..Len(work) :
         (/\ IsEvent(w, "l2update")
          /\ work[w].pc # "run"
          /\ Get(work[w].message.m, "changes").t = "list"
          /\ \E i \in 1..Len(work[w].message.m.changes.items) :
               work[w].message.m.changes.items[i] \in GoodRows)
         => work[w].passed # <<>>

\* C16: a read path that ended on a read error after the subscription was
\* written has reported that error through AddError exactly once, has exited
\* without reading again, and has neither reconnected nor closed the
\* connection.
ReadErrorReportedOnce ==
    \A r \in 1..Len(readers) :
        (readers[r].exit = "error" /\ conns[readers[r].of].written # <<>>)
        => /\ Len(readers[r].errs) = 1
           /\ readers[r].pc = "exited"
           /\ Len(conns) = 1
           /\ conns[readers[r].of].closed = 0

\* C17: when the parser rejects the payload of a frame exactly one error is
\* reported and nothing of the frame reaches the sink; when it succeeds the
\* sink receives the returned metrics one by one in the order returned, all
\* of them once the work item is done.
ParserOutcomeForwarded ==
    \A w \in 1..Len(work) :
        work[w].passed # <<>> =>
            IF work[w].errs # <<>>
            THEN /\ work[w].errs = <<"parse">>
                 /\ work[w].sink = <<>>
                 /\ work[w].metrics = <<>>
                 /\ work[w].pc = "done"
            ELSE /\ work[w].sink \o work[w].metrics = work[w].returned
                 /\ work[w].pc = "done" => work[w].sink = work[w].returned

\* the parser rejected one frame, the read path dispatched the next one, both
\* of its metrics reached the sink and the read path is reading again
RejectedThenForwarded ==
    /\ Len(work) = 2
    /\ work[1].errs = <<"parse">>
    /\ work[2].pc = "done" /\ Len(work[2].sink) = 2
    /\ \E r \in 1..Len(readers) : readers[r].pc = "read"

\* the work items spawned by read path r
SpawnedBy(r) == {w \in 1..Len(work) : work[w].reader = r}

\* C18: a read path that has received the stop signal takes no further
\* step: it reads no frame from any connection and spawns no work item.
ReaderStopsAfterSignal ==
    [][\A r \in 1..Len(readers) :
         readers[r].exit = "done" =>
            /\ readers'[r] = readers[r]
            /\ SpawnedBy(r)' = SpawnedBy(r)
            /\ conns'[readers[r].of].delivered = conns[readers[r].of].delivered]_vars

\* Stop has returned after a read path that had dispatched a frame received
\* the signal
StoppedAfterDispatch ==
    /\ stopRet = 1
    /\ \E r \in 1..Len(readers) :
         readers[r].exit = "done" /\ SpawnedBy(r) # {}

\* the messages of the work items of connection c, in the order spawned
RECURSIVE MessagesOf(_, _)
MessagesOf(c, n) ==
    IF n = 0 THEN <<>>
    ELSE IF work[n].conn = c
         THEN Append(MessagesOf(c, n - 1), work[n].message)
         ELSE MessagesOf(c, n - 1)

\* C19: every frame read is handed to one new work item of its own, the work
\* items of a connection carry its frames in arrival order, and the read
\* path is back at its stop check in the same step, whatever state the
\* earlier work items are in.
DispatchWithoutWaiting ==
    [][/\ \A c \in 1..Len(conns) :
            conns'[c].delivered # conns[c].delivered =>
               \E r \in 1..Len(readers) :
                  /\ readers[r].pc = "read"
                  /\ readers'[r].pc = "select"
                  /\ Len(conns'[c].delivered) = Len(conns[c].delivered) + 1
                  /\ work' = Append(work,
                        NewWork(r, c, conns'[c].delivered[Len(conns'[c].delivered)]))
       /\ \A c \in 1..Len(conns') :
            MessagesOf(c, Len(work))' = conns'[c].delivered]_vars

\* a second frame was dispatched and the read path is reading again while
\* the work item of the first frame has not run
ReadAheadOfWork ==
    /\ Len(work) = 2
    /\ work[1].pc = "run"
    /\ work[2].pc = "done"
    /\ \E r \in 1..Len(readers) : readers[r].pc = "read"

\* the read paths that have received the stop signal
Signalled == {r \in 1..Len(readers) : readers[r].exit = "done"}

\* Stop calls past their send on done
PastSend == stopRet + (IF hostPc = "close" THEN 1 ELSE 0)

\* C20: the Stop calls that have returned are at most the read paths that
\* have received the signal, which are at most the read paths Start has
\* started; a Stop blocked in its send while no read path is alive stays
\* blocked.
StopReturnsOnlyAfterSignal ==
    [][/\ PastSend' <= Cardinality(Signalled')
       /\ Cardinality(Signalled') <= Len(readers')
       /\ Len(readers') <= nStarts'
       /\ (hostPc = "send" /\ AllReadersExited) => hostPc' = "send"]_vars

\* one Stop has returned on the signal received by the read path and a
\* second Stop is blocked in its send
SecondStopBlocked ==
    /\ stopRet = 1 /\ nStops = 2
    /\ hostPc = "send"
    /\ Cardinality(Signalled) = 1

====
